---- MODULE Spec2Model ----
(***************************************************************************)
(* Model of Portenta_H7_ISR_Timer (Portenta_H7_ISR_Timer-Impl.h): a fixed  *)
(* array of software timer slots that is scanned and dispatched by run().  *)
(*                                                                         *)
(* The object's fields are the variables timer and numTimers; millis() is  *)
(* the variable now, a wrapping counter.  Every member function is a pure  *)
(* operator on the pair (timer array, numTimers) named as in the source,   *)
(* and one action applies it.  run() is split where it calls user code:    *)
(* Tick runs the scan loop and the dispatch loop up to the first callback  *)
(* call, CallbackReturn resumes the dispatch loop after a callback.  While *)
(* a callback is running (pc = "callback") the callback's body may call    *)
(* any member function except run().                                       *)
(***************************************************************************)
EXTENDS Integers, Sequences, FiniteSets

\* ------------------------------------------------------------------ bounds

\* capacity of the slot array (the header's MAX_NUMBER_TIMERS, scaled down)
MAX_NUMBER_TIMERS == 2

\* millis() and every unsigned long wrap modulo ULONG_MOD (2^32, scaled down)
ULONG_MOD == 4

\* number of member-function calls in one behaviour of Spec (the whole API)
MaxOps == 3

\* number of member-function calls in one behaviour of SpecReg
MaxOpsReg == 4

\* number of member-function calls in one behaviour of SpecRun
MaxOpsRun == 5

\* number of registrations in one behaviour of SpecRun
MaxRegsRun == 2

\* number of member-function calls in one behaviour of SpecSlot
MaxOpsSlot == 4

\* number of member-function calls in one behaviour of SpecBulk
MaxOpsBulk == 4

\* number of member-function calls in one behaviour of SpecDisp
MaxOpsDisp == 5

\* number of times the clock is seen to have advanced in one behaviour
MaxOpsCount == 4

MaxWaits == 1
MaxWaitsRun == 2

\* ------------------------------------------------- constants of the header

NULL == 0
TIMER_RUN_FOREVER == 0
TIMER_RUN_ONCE == 1
TIMER_DEFCALL_DONTRUN == 0
TIMER_DEFCALL_RUNONLY == 1
TIMER_DEFCALL_RUNANDDEL == 2

\* the modulus of `unsigned`: 32 bits wide on the target, 16 bits wide here
UINT_MOD == 2^16

\* ------------------------------------------------------------ input sets

Slots == 0 .. (MAX_NUMBER_TIMERS - 1)
\* timer ids passed by callers: every slot and one id that is out of range
Ids == 0 .. MAX_NUMBER_TIMERS
ULong == 0 .. (ULONG_MOD - 1)
Delays == {0, 1, 2}
RunCounts == {TIMER_RUN_FOREVER, TIMER_RUN_ONCE, 2}
\* a callback address; NULL is the absent callback
CB == 1
Callbacks == {NULL, CB}
\* a parameter address
PARAM == 1

\* ------------------------------------------------------------------ state

VARIABLES
  timer,      \* timer[i]: the timer_t record of slot i
  numTimers,  \* int numTimers
  now,        \* the value millis() returns
  pc,         \* "idle", "callback" (run() is inside a callback), "fault"
  idx,        \* run()'s dispatch index i while pc = "callback"
  budget,     \* the member-function calls (.ops), the registrations (.regs)
              \* and the waits (.waits) this behaviour may still make
  last,       \* history: the last step, its id argument (.id), its other
              \*          arguments (.arg), its return value and numTimers
              \*          before it (.n0)
  called,     \* history: slots whose callback run() invoked in the latest tick
  calls,      \* history: calls[i], invocations of slot i since it was registered
  reg,        \* history: reg[i], the time, period and run count slot i was
              \*          last registered with (n = -1: never registered)
  atScan,     \* history: atScan[i], what slot i was when the latest tick began,
              \*          "free" if it has been registered since
  rt,         \* history: rt[i] follows slot i from its registration until a
              \*          tick finds it due or its schedule is changed: "armed",
              \*          "paused" once disabled, "resumed" once enabled again;
              \*          "deadline" (from armed) and "deadlineRT" (from resumed)
              \*          in the tick that begins exactly one period after the
              \*          registration
  streak,     \* history: results of consecutive registrations since init
  streakOn    \* history: only registrations happened since init/construction

vars == <<timer, numTimers, now, pc, idx, budget, last, called, calls, reg,
          atScan, rt, streak, streakOn>>

\* memset(&timer[i], 0, sizeof(timer_t))
ZeroSlot ==
  [delay |-> 0, callback |-> NULL, param |-> NULL, hasParam |-> FALSE,
   prev_millis |-> 0, enabled |-> FALSE, numRuns |-> 0, maxNumRuns |-> 0,
   toBeCalled |-> 0]

\* an arbitrary content of a slot that was never written
GarbageSlot ==
  [delay |-> 1, callback |-> CB, param |-> NULL, hasParam |-> FALSE,
   prev_millis |-> 1, enabled |-> TRUE, numRuns |-> 1, maxNumRuns |-> 2,
   toBeCalled |-> TIMER_DEFCALL_RUNONLY]

\* uninitialised bytes of a slot whose callback happens to be NULL
MarkedFreeSlot ==
  [ZeroSlot EXCEPT !.delay = 1, !.enabled = TRUE,
                   !.toBeCalled = TIMER_DEFCALL_RUNONLY]

\* uninitialised bytes that read as a forever timer with a run count
GarbageForeverSlot ==
  [GarbageSlot EXCEPT !.maxNumRuns = TIMER_RUN_FOREVER]

\* number of slots with a callback
InUse(t) == Cardinality({i \in Slots : t[i].callback # NULL})

\* ------------------------------------------------------- member functions
\* Each operator takes the array t, the counter n and the clock ms, and
\* yields the new array .t, the new counter .n and the return value .ret.

\* Portenta_H7_ISR_Timer::init()
init(t, n, ms) ==
  [t |-> [i \in Slots |-> [ZeroSlot EXCEPT !.prev_millis = ms]],
   n |-> 0, ret |-> 0]

\* findFirstFreeSlot with the capacity test off by one
findFirstFreeSlot_OffByOne(t, n) ==
  IF n >= MAX_NUMBER_TIMERS - 1 THEN -1
  ELSE IF \E i \in Slots : t[i].callback = NULL
       THEN CHOOSE i \in Slots : /\ t[i].callback = NULL
                                 /\ \A j \in Slots : j < i => t[j].callback # NULL
       ELSE -1

\* Portenta_H7_ISR_Timer::findFirstFreeSlot()
findFirstFreeSlot(t, n) ==
  IF n >= MAX_NUMBER_TIMERS THEN -1
  ELSE IF \E i \in Slots : t[i].callback = NULL
       THEN CHOOSE i \in Slots : /\ t[i].callback = NULL
                                 /\ \A j \in Slots : j < i => t[j].callback # NULL
       ELSE -1

\* SetupSlot without the store enabled = true
SetupSlot_LeavesEnabled(s, ms, d, f, p, h, r) ==
  [s EXCEPT !.delay = d, !.callback = f, !.param = p, !.hasParam = h,
            !.maxNumRuns = r, !.prev_millis = ms]

\* the stores of setupTimer into the free slot
SetupSlot(s, ms, d, f, p, h, r) ==
  [s EXCEPT !.delay = d, !.callback = f, !.param = p, !.hasParam = h,
            !.maxNumRuns = r, !.enabled = TRUE, !.prev_millis = ms]

\* Portenta_H7_ISR_Timer::setupTimer(d, f, p, h, n)
setupTimer(t, n, ms, d, f, p, h, r) ==
  LET S0 == IF n < 0 THEN init(t, n, ms) ELSE [t |-> t, n |-> n, ret |-> 0]
      freeTimer == findFirstFreeSlot(S0.t, S0.n)
  IN  IF freeTimer < 0 THEN [t |-> S0.t, n |-> S0.n, ret |-> -1]
      ELSE IF f = NULL THEN [t |-> S0.t, n |-> S0.n, ret |-> -1]
      ELSE [t |-> [S0.t EXCEPT ![freeTimer] = SetupSlot(@, ms, d, f, p, h, r)],
            n |-> S0.n + 1, ret |-> freeTimer]

\* changeInterval keeping the phase (prev_millis is not reset)
changeInterval_KeepsPhase(t, n, ms, id, d) ==
  IF id >= MAX_NUMBER_TIMERS THEN [t |-> t, n |-> n, ret |-> FALSE]
  ELSE IF t[id].callback # NULL
       THEN [t |-> [t EXCEPT ![id].delay = d], n |-> n, ret |-> TRUE]
       ELSE [t |-> t, n |-> n, ret |-> FALSE]

\* Portenta_H7_ISR_Timer::changeInterval(numTimer, d)
changeInterval(t, n, ms, id, d) ==
  IF id >= MAX_NUMBER_TIMERS THEN [t |-> t, n |-> n, ret |-> FALSE]
  ELSE IF t[id].callback # NULL
       THEN [t |-> [t EXCEPT ![id].delay = d, ![id].prev_millis = ms],
             n |-> n, ret |-> TRUE]
       ELSE [t |-> t, n |-> n, ret |-> FALSE]

\* deleteTimer leaving the toBeCalled mark of the slot
deleteTimer_KeepsMark(t, n, ms, id) ==
  IF id >= MAX_NUMBER_TIMERS THEN [t |-> t, n |-> n, ret |-> 0]
  ELSE IF n = 0 THEN [t |-> t, n |-> n, ret |-> 0]
  ELSE IF t[id].callback # NULL
       THEN [t |-> [t EXCEPT ![id] = [ZeroSlot EXCEPT
                                        !.prev_millis = ms,
                                        !.toBeCalled = t[id].toBeCalled]],
             n |-> n - 1, ret |-> 0]
       ELSE [t |-> t, n |-> n, ret |-> 0]

\* deleteTimer clearing the callback instead of the whole slot
deleteTimer_ClearsCallbackOnly(t, n, ms, id) ==
  IF id >= MAX_NUMBER_TIMERS THEN [t |-> t, n |-> n, ret |-> 0]
  ELSE IF n = 0 THEN [t |-> t, n |-> n, ret |-> 0]
  ELSE IF t[id].callback # NULL
       THEN [t |-> [t EXCEPT ![id].callback = NULL, ![id].prev_millis = ms],
             n |-> n - 1, ret |-> 0]
       ELSE [t |-> t, n |-> n, ret |-> 0]

\* deleteTimer without the test that the slot is in use
deleteTimer_NoUseTest(t, n, ms, id) ==
  IF id >= MAX_NUMBER_TIMERS THEN [t |-> t, n |-> n, ret |-> 0]
  ELSE IF n = 0 THEN [t |-> t, n |-> n, ret |-> 0]
  ELSE [t |-> [t EXCEPT ![id] = [ZeroSlot EXCEPT !.prev_millis = ms]],
        n |-> n - 1, ret |-> 0]

\* Portenta_H7_ISR_Timer::deleteTimer(timerId)
deleteTimer(t, n, ms, id) ==
  IF id >= MAX_NUMBER_TIMERS THEN [t |-> t, n |-> n, ret |-> 0]
  ELSE IF n = 0 THEN [t |-> t, n |-> n, ret |-> 0]
  ELSE IF t[id].callback # NULL
       THEN [t |-> [t EXCEPT ![id] = [ZeroSlot EXCEPT !.prev_millis = ms]],
             n |-> n - 1, ret |-> 0]
       ELSE [t |-> t, n |-> n, ret |-> 0]

\* Portenta_H7_ISR_Timer::restartTimer(numTimer)
restartTimer(t, n, ms, id) ==
  IF id >= MAX_NUMBER_TIMERS THEN [t |-> t, n |-> n, ret |-> 0]
  ELSE [t |-> [t EXCEPT ![id].prev_millis = ms], n |-> n, ret |-> 0]

\* Portenta_H7_ISR_Timer::isEnabled(numTimer)
isEnabled(t, id) ==
  IF id >= MAX_NUMBER_TIMERS THEN FALSE ELSE t[id].enabled

\* enable moving the schedule of the timer by one millisecond
enable_ShiftsSchedule(t, n, id) ==
  IF id >= MAX_NUMBER_TIMERS THEN [t |-> t, n |-> n, ret |-> 0]
  ELSE [t |-> [t EXCEPT ![id].enabled = TRUE,
                        ![id].prev_millis = (@ + 1) % ULONG_MOD],
        n |-> n, ret |-> 0]

\* Portenta_H7_ISR_Timer::enable(numTimer)
enable(t, n, id) ==
  IF id >= MAX_NUMBER_TIMERS THEN [t |-> t, n |-> n, ret |-> 0]
  ELSE [t |-> [t EXCEPT ![id].enabled = TRUE], n |-> n, ret |-> 0]

\* Portenta_H7_ISR_Timer::disable(numTimer)
disable(t, n, id) ==
  IF id >= MAX_NUMBER_TIMERS THEN [t |-> t, n |-> n, ret |-> 0]
  ELSE [t |-> [t EXCEPT ![id].enabled = FALSE], n |-> n, ret |-> 0]

\* Portenta_H7_ISR_Timer::enableAll()
enableAll(t, n) ==
  [t |-> [i \in Slots |->
            IF t[i].callback # NULL /\ t[i].numRuns = TIMER_RUN_FOREVER
            THEN [t[i] EXCEPT !.enabled = TRUE] ELSE t[i]],
   n |-> n, ret |-> 0]

\* disableAll selecting the slots by maxNumRuns instead of numRuns
disableAll_ByMaxNumRuns(t, n) ==
  [t |-> [i \in Slots |->
            IF t[i].callback # NULL /\ t[i].maxNumRuns = TIMER_RUN_FOREVER
            THEN [t[i] EXCEPT !.enabled = FALSE] ELSE t[i]],
   n |-> n, ret |-> 0]

\* Portenta_H7_ISR_Timer::disableAll()
disableAll(t, n) ==
  [t |-> [i \in Slots |->
            IF t[i].callback # NULL /\ t[i].numRuns = TIMER_RUN_FOREVER
            THEN [t[i] EXCEPT !.enabled = FALSE] ELSE t[i]],
   n |-> n, ret |-> 0]

\* Portenta_H7_ISR_Timer::toggle(numTimer)
toggle(t, n, id) ==
  IF id >= MAX_NUMBER_TIMERS THEN [t |-> t, n |-> n, ret |-> 0]
  ELSE [t |-> [t EXCEPT ![id].enabled = ~@], n |-> n, ret |-> 0]

\* Portenta_H7_ISR_Timer::getNumTimers(): int numTimers returned as unsigned
getNumTimers(n) == n % UINT_MOD

\* ------------------------------------------------------------------ run()

\* Elapsed by direct comparison: nothing has elapsed when the clock reads
\* less than prev_millis
Elapsed_DirectCompare(s, cm) ==
  IF cm >= s.prev_millis THEN cm - s.prev_millis ELSE 0

\* current_millis - timer[i].prev_millis, in unsigned long arithmetic
Elapsed(s, cm) == (cm - s.prev_millis) % ULONG_MOD

\* IsDue with > for >=
IsDue_Strict(s, cm) == Elapsed(s, cm) > s.delay

\* the test "is it time to process this timer ?"
IsDue(s, cm) == Elapsed(s, cm) >= s.delay

\* the slot divides by a zero delay in the scan loop
DividesByZero(s, cm) == s.callback # NULL /\ IsDue(s, cm) /\ s.delay = 0

\* skipTimes; q is what the division yields when the delay is zero
SkipTimes(s, cm, q) == IF s.delay = 0 THEN q ELSE Elapsed(s, cm) \div s.delay

\* timer[i].prev_millis += timer[i].delay * skipTimes
AdvancePrev(s, cm, q) ==
  [s EXCEPT !.prev_millis = (@ + s.delay * SkipTimes(s, cm, q)) % ULONG_MOD]

\* MarkSlot counting the runs of a forever timer as well
MarkSlot_CountsForever(s) ==
  IF s.enabled
  THEN IF s.maxNumRuns = TIMER_RUN_FOREVER
       THEN [s EXCEPT !.numRuns = @ + 1,
                      !.toBeCalled = TIMER_DEFCALL_RUNONLY]
       ELSE IF s.numRuns < s.maxNumRuns
            THEN [s EXCEPT !.numRuns = @ + 1,
                           !.toBeCalled = IF s.numRuns + 1 >= s.maxNumRuns
                                          THEN TIMER_DEFCALL_RUNANDDEL
                                          ELSE TIMER_DEFCALL_RUNONLY]
            ELSE s
  ELSE s

\* MarkSlot marking a forever timer for deletion
MarkSlot_DeletesForever(s) ==
  IF s.enabled
  THEN IF s.maxNumRuns = TIMER_RUN_FOREVER
       THEN [s EXCEPT !.toBeCalled = TIMER_DEFCALL_RUNANDDEL]
       ELSE IF s.numRuns < s.maxNumRuns
            THEN [s EXCEPT !.numRuns = @ + 1,
                           !.toBeCalled = IF s.numRuns + 1 >= s.maxNumRuns
                                          THEN TIMER_DEFCALL_RUNANDDEL
                                          ELSE TIMER_DEFCALL_RUNONLY]
            ELSE s
  ELSE s

\* MarkSlot deleting only after one run too many (> for >=)
MarkSlot_LateDelete(s) ==
  IF s.enabled
  THEN IF s.maxNumRuns = TIMER_RUN_FOREVER
       THEN [s EXCEPT !.toBeCalled = TIMER_DEFCALL_RUNONLY]
       ELSE IF s.numRuns < s.maxNumRuns
            THEN [s EXCEPT !.numRuns = @ + 1,
                           !.toBeCalled = IF s.numRuns + 1 > s.maxNumRuns
                                          THEN TIMER_DEFCALL_RUNANDDEL
                                          ELSE TIMER_DEFCALL_RUNONLY]
            ELSE s
  ELSE s

\* the marking of a due slot: "check if the timer callback has to be executed"
MarkSlot(s) ==
  IF s.enabled
  THEN IF s.maxNumRuns = TIMER_RUN_FOREVER
       THEN [s EXCEPT !.toBeCalled = TIMER_DEFCALL_RUNONLY]
       ELSE IF s.numRuns < s.maxNumRuns
            THEN [s EXCEPT !.numRuns = @ + 1,
                           !.toBeCalled = IF s.numRuns + 1 >= s.maxNumRuns
                                          THEN TIMER_DEFCALL_RUNANDDEL
                                          ELSE TIMER_DEFCALL_RUNONLY]
            ELSE s
  ELSE s

\* ScanSlot without the store toBeCalled = TIMER_DEFCALL_DONTRUN
ScanSlot_KeepsMark(s, cm, q) ==
  IF s.callback # NULL
  THEN IF IsDue(s, cm) THEN MarkSlot(AdvancePrev(s, cm, q)) ELSE s
  ELSE s

\* ScanSlot leaving prev_millis of a disabled timer alone
ScanSlot_SkipsDisabled(s, cm, q) ==
  LET s0 == [s EXCEPT !.toBeCalled = TIMER_DEFCALL_DONTRUN]
  IN  IF s0.callback # NULL
      THEN IF IsDue(s0, cm) /\ s0.enabled
           THEN MarkSlot(AdvancePrev(s0, cm, q)) ELSE s0
      ELSE s0

\* one iteration of the scan loop of run()
ScanSlot(s, cm, q) ==
  LET s0 == [s EXCEPT !.toBeCalled = TIMER_DEFCALL_DONTRUN]
  IN  IF s0.callback # NULL
      THEN IF IsDue(s0, cm) THEN MarkSlot(AdvancePrev(s0, cm, q)) ELSE s0
      ELSE s0

\* the scan loop of run() over slots 0 .. k-1
ScanUpTo(t, cm, q, k) ==
  [i \in Slots |-> IF i < k THEN ScanSlot(t[i], cm, q) ELSE t[i]]

\* NextMarked taking the marked slots from the highest index down
NextMarked_Descending(t, i) ==
  IF \E j \in Slots : j >= i /\ t[j].toBeCalled # TIMER_DEFCALL_DONTRUN
  THEN CHOOSE j \in Slots :
         /\ j >= i /\ t[j].toBeCalled # TIMER_DEFCALL_DONTRUN
         /\ \A k \in Slots : k > j => t[k].toBeCalled = TIMER_DEFCALL_DONTRUN
  ELSE MAX_NUMBER_TIMERS

\* the first slot at or after i that the dispatch loop does not skip
NextMarked(t, i) ==
  IF \E j \in Slots : j >= i /\ t[j].toBeCalled # TIMER_DEFCALL_DONTRUN
  THEN CHOOSE j \in Slots :
         /\ j >= i /\ t[j].toBeCalled # TIMER_DEFCALL_DONTRUN
         /\ \A k \in Slots : (k >= i /\ k < j) => t[k].toBeCalled = TIMER_DEFCALL_DONTRUN
  ELSE MAX_NUMBER_TIMERS

\* the dispatch loop of run() from index i up to its next callback call;
\* cd lists the slots this tick has invoked so far
Dispatch(t, i, cd) ==
  LET j == NextMarked(t, i)
  IN  IF j < MAX_NUMBER_TIMERS
      THEN /\ idx' = j
           /\ pc' = "callback"
           /\ called' = Append(cd, j)
           /\ calls' = [calls EXCEPT ![j] = IF reg[j].n > 0 THEN @ + 1 ELSE @]
      ELSE /\ idx' = 0
           /\ pc' = "idle"
           /\ called' = cd
           /\ calls' = calls

\* ------------------------------------------------------ history variables

NoReg == [t0 |-> 0, d |-> 0, n |-> -1]

\* what a slot is when a tick begins at cm
ScanClass(s, cm) ==
  IF s.callback = NULL THEN "free"
  ELSE IF ~s.enabled THEN "off"
  ELSE IF (cm - s.prev_millis) % ULONG_MOD < s.delay THEN "early"
  ELSE IF s.maxNumRuns = TIMER_RUN_FOREVER THEN "dueForever"
  ELSE "due"

Waiting == {"armed", "paused", "resumed"}

\* rt[i] after a member function left the enabled flag of slot i at en
RtAfterFlag(i, en) ==
  IF rt[i] \notin Waiting THEN rt[i]
  ELSE IF ~en THEN "paused"
  ELSE IF rt[i] = "paused" THEN "resumed"
  ELSE rt[i]

\* rt[i] after a tick that begins at cm
RtAfterScan(i, cm) ==
  IF rt[i] \notin Waiting THEN "none"
  ELSE LET e == (cm - reg[i].t0) % ULONG_MOD
       IN  IF e < reg[i].d THEN rt[i]
           ELSE IF e = reg[i].d /\ rt[i] = "armed" THEN "deadline"
           ELSE IF e = reg[i].d /\ rt[i] = "resumed" THEN "deadlineRT"
           ELSE "none"

\* member functions that change the schedule of the slot they are given
Reschedules == {"changeInterval", "restartTimer", "deleteTimer"}

\* called, atScan and the "deadline" of rt describe the latest tick: a step
\* of the main program forgets them
NoScan == [i \in Slots |-> "free"]
KeepCalled == IF pc = "idle" THEN <<>> ELSE called
KeepAtScan == IF pc = "idle" THEN NoScan ELSE atScan
KeepRt(i) ==
  IF pc = "idle" /\ rt[i] \in {"deadline", "deadlineRT"} THEN "none" ELSE rt[i]

\* ---------------------------------------------------------------- actions

\* Portenta_H7_ISR_Timer(): numTimers(-1); the array is not written.  An
\* object in static storage starts zeroed, any other holds arbitrary bytes.
InitFrom(b, arrays) ==
  /\ timer \in arrays
  /\ numTimers = -1
  /\ now = ULONG_MOD - 1
  /\ pc = "idle"
  /\ idx = 0
  /\ budget = b
  /\ last = [op |-> "ctor", id |-> 0, arg |-> <<>>, ret |-> 0, n0 |-> -1]
  /\ called = <<>>
  /\ calls = [i \in Slots |-> 0]
  /\ reg = [i \in Slots |-> NoReg]
  /\ atScan = NoScan
  /\ rt = [i \in Slots |-> "none"]
  /\ streak = <<>>
  /\ streakOn = TRUE

InitWith(b) ==
  InitFrom(b, {[i \in Slots |-> ZeroSlot], [i \in Slots |-> GarbageSlot]})

Init == InitWith([ops |-> MaxOps, regs |-> MaxOps, waits |-> MaxWaits])

\* a member function may be called from the main program or from a callback
CanCall == pc \in {"idle", "callback"} /\ budget.ops > 0

\* the effect of a member function that is not a registration
Apply(S, name, id, arg) ==
  /\ timer' = S.t
  /\ numTimers' = S.n
  /\ last' = [op |-> name, id |-> id, arg |-> arg, ret |-> S.ret, n0 |-> numTimers]
  /\ budget' = [budget EXCEPT !.ops = @ - 1]
  /\ rt' = [i \in Slots |->
              IF name \in Reschedules /\ i = id THEN "none"
              ELSE IF pc = "idle" /\ rt[i] \in {"deadline", "deadlineRT"} THEN "none"
              ELSE RtAfterFlag(i, S.t[i].enabled)]
  /\ called' = KeepCalled
  /\ atScan' = KeepAtScan
  /\ streak' = <<>>
  /\ streakOn' = FALSE
  /\ UNCHANGED <<now, pc, idx, calls, reg>>

\* the effect of a registration through setupTimer
Register(S, name, d, f, p, h, r) ==
  /\ timer' = S.t
  /\ numTimers' = S.n
  /\ budget.regs > 0
  /\ last' = [op |-> name, id |-> S.ret, arg |-> <<d, f, p, h, r>>,
              ret |-> S.ret, n0 |-> numTimers]
  /\ budget' = [budget EXCEPT !.ops = @ - 1, !.regs = @ - 1]
  /\ calls' = [i \in Slots |->
                 IF numTimers < 0 \/ i = S.ret THEN 0 ELSE calls[i]]
  /\ reg' = [i \in Slots |->
               IF i = S.ret THEN [t0 |-> now, d |-> d, n |-> r]
               ELSE IF numTimers < 0 THEN NoReg ELSE reg[i]]
  /\ rt' = [i \in Slots |->
              IF i = S.ret THEN "armed"
              ELSE IF numTimers < 0 THEN "none" ELSE KeepRt(i)]
  /\ called' = KeepCalled
  /\ atScan' = [i \in Slots |->
                  IF numTimers < 0 \/ i = S.ret THEN "free" ELSE KeepAtScan[i]]
  /\ IF streakOn /\ f # NULL /\ Len(streak) <= MAX_NUMBER_TIMERS
     THEN streak' = Append(streak, S.ret) /\ streakOn' = TRUE
     ELSE streak' = <<>> /\ streakOn' = FALSE
  /\ UNCHANGED <<now, pc, idx>>

DoInit ==
  /\ CanCall
  /\ LET S == init(timer, numTimers, now)
     IN  /\ timer' = S.t
         /\ numTimers' = S.n
  /\ last' = [op |-> "init", id |-> 0, arg |-> <<>>, ret |-> 0, n0 |-> numTimers]
  /\ budget' = [budget EXCEPT !.ops = @ - 1]
  /\ calls' = [i \in Slots |-> 0]
  /\ reg' = [i \in Slots |-> NoReg]
  /\ rt' = [i \in Slots |-> "none"]
  /\ called' = KeepCalled
  /\ atScan' = KeepAtScan
  /\ streak' = <<>>
  /\ streakOn' = TRUE
  /\ UNCHANGED <<now, pc, idx>>

\* setTimer(d, f, n)
SetTimer ==
  /\ CanCall
  /\ \E d \in Delays, f \in Callbacks, r \in RunCounts :
       Register(setupTimer(timer, numTimers, now, d, f, NULL, FALSE, r),
                "setTimer", d, f, NULL, FALSE, r)

\* setTimer(d, f, p, n)
SetTimerP ==
  /\ CanCall
  /\ \E d \in Delays, f \in Callbacks, r \in RunCounts :
       Register(setupTimer(timer, numTimers, now, d, f, PARAM, TRUE, r),
                "setTimer", d, f, PARAM, TRUE, r)

\* setInterval(d, f)
SetInterval ==
  /\ CanCall
  /\ \E d \in Delays, f \in Callbacks :
       Register(setupTimer(timer, numTimers, now, d, f, NULL, FALSE, TIMER_RUN_FOREVER),
                "setInterval", d, f, NULL, FALSE, TIMER_RUN_FOREVER)

\* setInterval(d, f, p)
SetIntervalP ==
  /\ CanCall
  /\ \E d \in Delays, f \in Callbacks :
       Register(setupTimer(timer, numTimers, now, d, f, PARAM, TRUE, TIMER_RUN_FOREVER),
                "setInterval", d, f, PARAM, TRUE, TIMER_RUN_FOREVER)

\* setTimeout(d, f)
SetTimeout ==
  /\ CanCall
  /\ \E d \in Delays, f \in Callbacks :
       Register(setupTimer(timer, numTimers, now, d, f, NULL, FALSE, TIMER_RUN_ONCE),
                "setTimeout", d, f, NULL, FALSE, TIMER_RUN_ONCE)

\* setTimeout(d, f, p)
SetTimeoutP ==
  /\ CanCall
  /\ \E d \in Delays, f \in Callbacks :
       Register(setupTimer(timer, numTimers, now, d, f, PARAM, TRUE, TIMER_RUN_ONCE),
                "setTimeout", d, f, PARAM, TRUE, TIMER_RUN_ONCE)

ChangeInterval(id, d) ==
  /\ CanCall
  /\ Apply(changeInterval(timer, numTimers, now, id, d), "changeInterval", id, <<d>>)

DeleteTimer(id) ==
  /\ CanCall
  /\ Apply(deleteTimer(timer, numTimers, now, id), "deleteTimer", id, <<>>)

RestartTimer(id) ==
  /\ CanCall
  /\ Apply(restartTimer(timer, numTimers, now, id), "restartTimer", id, <<>>)

Enable(id) ==
  /\ CanCall
  /\ Apply(enable(timer, numTimers, id), "enable", id, <<>>)

Disable(id) ==
  /\ CanCall
  /\ Apply(disable(timer, numTimers, id), "disable", id, <<>>)

Toggle(id) ==
  /\ CanCall
  /\ Apply(toggle(timer, numTimers, id), "toggle", id, <<>>)

EnableAll ==
  /\ CanCall
  /\ Apply(enableAll(timer, numTimers), "enableAll", 0, <<>>)

DisableAll ==
  /\ CanCall
  /\ Apply(disableAll(timer, numTimers), "disableAll", 0, <<>>)

\* run(): the scan loop, then the dispatch loop up to its first callback call
Tick ==
  /\ pc = "idle"
  /\ budget.ops > 0
  /\ \E q \in ULong :
       LET t1 == ScanUpTo(timer, now, q, MAX_NUMBER_TIMERS)
       IN  /\ timer' = t1
           /\ Dispatch(t1, 0, <<>>)
  /\ last' = [op |-> "run", id |-> 0, arg |-> <<>>, ret |-> 0, n0 |-> numTimers]
  /\ budget' = [budget EXCEPT !.ops = @ - 1]
  /\ atScan' = [i \in Slots |-> ScanClass(timer[i], now)]
  /\ rt' = [i \in Slots |-> RtAfterScan(i, now)]
  /\ streak' = <<>>
  /\ streakOn' = FALSE
  /\ UNCHANGED <<numTimers, now, reg>>

\* run() when the division by a zero delay traps: the scan loop stops in
\* the first slot that divides by zero and nothing runs afterwards
TickFault ==
  /\ pc = "idle"
  /\ budget.ops > 0
  /\ \E k \in Slots :
       /\ DividesByZero(timer[k], now)
       /\ \A j \in Slots : j < k => ~DividesByZero(timer[j], now)
       /\ timer' = [ScanUpTo(timer, now, 0, k) EXCEPT
                      ![k].toBeCalled = TIMER_DEFCALL_DONTRUN]
  /\ pc' = "fault"
  /\ last' = [op |-> "run", id |-> 0, arg |-> <<>>, ret |-> 0, n0 |-> numTimers]
  /\ budget' = [budget EXCEPT !.ops = @ - 1]
  /\ called' = <<>>
  /\ atScan' = [i \in Slots |-> ScanClass(timer[i], now)]
  /\ rt' = [i \in Slots |-> "none"]
  /\ streak' = <<>>
  /\ streakOn' = FALSE
  /\ UNCHANGED <<numTimers, now, idx, calls, reg>>

\* the callback of slot idx returns: run() deletes the slot if it is marked
\* RUNANDDEL and goes on with the dispatch loop
CallbackReturn ==
  /\ pc = "callback"
  /\ LET S == IF timer[idx].toBeCalled = TIMER_DEFCALL_RUNANDDEL
              THEN deleteTimer(timer, numTimers, now, idx)
              ELSE [t |-> timer, n |-> numTimers, ret |-> 0]
     IN  /\ timer' = S.t
         /\ numTimers' = S.n
         /\ Dispatch(S.t, idx + 1, called)
  /\ last' = [op |-> "return", id |-> idx, arg |-> <<>>, ret |-> 0, n0 |-> numTimers]
  /\ streak' = <<>>
  /\ streakOn' = FALSE
  /\ UNCHANGED <<now, budget, reg, atScan, rt>>

\* k milliseconds pass between two calls of the main program (run() and
\* the callbacks it calls take less than a millisecond)
AdvanceClock ==
  /\ pc = "idle"
  /\ budget.waits > 0
  /\ \E k \in 1 .. (ULONG_MOD - 1) : now' = (now + k) % ULONG_MOD
  /\ budget' = [budget EXCEPT !.waits = @ - 1]
  /\ last' = [op |-> "millis", id |-> 0, arg |-> <<>>, ret |-> 0, n0 |-> numTimers]
  /\ rt' = [i \in Slots |-> KeepRt(i)]
  /\ called' = KeepCalled
  /\ atScan' = KeepAtScan
  /\ UNCHANGED <<timer, numTimers, pc, idx, calls, reg, streak, streakOn>>

\* the whole API
Next ==
  \/ DoInit
  \/ SetTimer
  \/ SetTimerP
  \/ SetInterval
  \/ SetIntervalP
  \/ SetTimeout
  \/ SetTimeoutP
  \/ \E id \in Ids, d \in Delays : ChangeInterval(id, d)
  \/ \E id \in Ids : DeleteTimer(id)
  \/ \E id \in Ids : RestartTimer(id)
  \/ \E id \in Ids : Enable(id)
  \/ \E id \in Ids : Disable(id)
  \/ \E id \in Ids : Toggle(id)
  \/ EnableAll
  \/ DisableAll
  \/ Tick
  \/ TickFault
  \/ CallbackReturn
  \/ AdvanceClock

Spec == Init /\ [][Next]_vars

\* registrations only, from construction or from init()
InitReg == InitWith([ops |-> MaxOpsReg, regs |-> MaxOpsReg, waits |-> MaxWaits])

NextReg ==
  \/ DoInit
  \/ SetInterval
  \/ SetTimeoutP
  \/ AdvanceClock

SpecReg == InitReg /\ [][NextReg]_vars

\* timers that are registered, enabled, disabled and run
InitRun == InitWith([ops |-> MaxOpsRun, regs |-> MaxRegsRun, waits |-> MaxWaitsRun])

NextRun ==
  \/ SetTimer
  \/ \E id \in Ids : Enable(id)
  \/ \E id \in Ids : Disable(id)
  \/ Tick
  \/ TickFault
  \/ CallbackReturn
  \/ AdvanceClock

SpecRun == InitRun /\ [][NextRun]_vars

\* slots that are registered, run, freed and registered again
InitSlot == InitWith([ops |-> MaxOpsSlot, regs |-> MaxOpsSlot, waits |-> MaxWaits])

NextSlot ==
  \/ SetTimerP
  \/ SetTimeout
  \/ \E id \in Ids : DeleteTimer(id)
  \/ \E id \in Ids : Toggle(id)
  \/ Tick
  \/ TickFault
  \/ CallbackReturn
  \/ AdvanceClock

SpecSlot == InitSlot /\ [][NextSlot]_vars

\* timers that have and have not run yet, and the bulk flag operations
InitBulk == InitWith([ops |-> MaxOpsBulk, regs |-> MaxOpsBulk, waits |-> MaxWaits])

NextBulk ==
  \/ SetTimer
  \/ EnableAll
  \/ DisableAll
  \/ Tick
  \/ TickFault
  \/ CallbackReturn
  \/ AdvanceClock

SpecBulk == InitBulk /\ [][NextBulk]_vars

\* callbacks that remove, register and re-initialise in the middle of a tick
InitDisp ==
  InitFrom([ops |-> MaxOpsDisp, regs |-> MaxOpsDisp, waits |-> MaxWaits],
           {[i \in Slots |-> ZeroSlot], [i \in Slots |-> GarbageSlot],
            [i \in Slots |-> MarkedFreeSlot]})

NextDisp ==
  \/ SetInterval
  \/ DoInit
  \/ \E id \in Ids : DeleteTimer(id)
  \/ Tick
  \/ TickFault
  \/ CallbackReturn
  \/ AdvanceClock

SpecDisp == InitDisp /\ [][NextDisp]_vars

\* the run counts of finite and forever timers over ticks and bulk flag calls
InitCount ==
  InitFrom([ops |-> MaxOpsCount, regs |-> MaxOpsCount, waits |-> MaxWaits],
           {[i \in Slots |-> ZeroSlot], [i \in Slots |-> GarbageSlot],
            [i \in Slots |-> GarbageForeverSlot]})

NextCount ==
  \/ SetTimerP
  \/ \E id \in Ids : DeleteTimer(id)
  \/ EnableAll
  \/ DisableAll
  \/ Tick
  \/ TickFault
  \/ CallbackReturn
  \/ AdvanceClock

SpecCount == InitCount /\ [][NextCount]_vars

\* ------------------------------------------------------------- properties

RegisterOps == {"setTimer", "setInterval", "setTimeout"}

\* the number of times slot i occurs in the sequence cd
Count(i, cd) == Cardinality({k \in 1 .. Len(cd) : cd[k] = i})

\* C1 as stated: in every reachable state numTimers is the number of slots
\* in use, is at most MAX_NUMBER_TIMERS, and getNumTimers() returns that count.
C1_CountAlways ==
  /\ numTimers = InUse(timer)
  /\ numTimers <= MAX_NUMBER_TIMERS
  /\ getNumTimers(numTimers) = InUse(timer)

\* C1 amended: once init() or a registration has run, numTimers is never
\* negative again, and whenever it is not negative it is the number of slots
\* in use, is at most MAX_NUMBER_TIMERS and is what getNumTimers() returns
\* (also in the middle of a tick, whatever the callbacks did).
C1_CountOnceInitialised ==
  /\ last.op \in RegisterOps \cup {"init"} => numTimers >= 0
  /\ last.n0 >= 0 => numTimers >= 0
  /\ numTimers >= 0 =>
       /\ numTimers = InUse(timer)
       /\ numTimers <= MAX_NUMBER_TIMERS
       /\ getNumTimers(numTimers) = InUse(timer)

\* a callback has removed a timer in the middle of a tick
C1_Witness ==
  /\ pc = "callback"
  /\ last.op = "deleteTimer"
  /\ last.n0 = 1
  /\ numTimers = 0
  /\ InUse(timer) = 0
  /\ getNumTimers(numTimers) = 0

\* C2: from construction or init(), the first MAX_NUMBER_TIMERS consecutive
\* registrations with a callback return distinct slot ids, and the next one
\* returns -1.
C2_FillThenFail ==
  streakOn =>
    \A k \in 1 .. Len(streak) :
      IF k <= MAX_NUMBER_TIMERS
      THEN /\ streak[k] \in Slots
           /\ \A j \in 1 .. (k - 1) : streak[j] # streak[k]
      ELSE streak[k] = -1

\* the table was filled and one more registration was refused
C2_Witness ==
  /\ streakOn
  /\ Len(streak) = MAX_NUMBER_TIMERS + 1
  /\ streak[MAX_NUMBER_TIMERS + 1] = -1
  /\ numTimers = MAX_NUMBER_TIMERS

\* ------------------------------------------------------------------- C3

\* a tick that trapped on a zero delay never finishes: no callback runs in
\* it and none after it
Running == pc # "fault"

\* the number of invocations slot i has had in this tick when the tick has
\* invoked it, given that the dispatch loop is at idx
InvokedOnce(i) ==
  Count(i, called) = (IF pc = "idle" \/ idx >= i THEN 1 ELSE 0)

\* C3: a timer registered with a finite run count n is invoked at most n
\* times; while it is in use between ticks it has had fewer than n
\* invocations, numRuns counts them, and a tick that finds it enabled and due
\* invokes it once; when its n-th invocation returns the slot is free,
\* numTimers and getNumTimers() are one less, and changeInterval on the old
\* id returns false
C3_FiniteRuns ==
  \A i \in Slots :
    reg[i].n > 0 =>
      /\ calls[i] <= reg[i].n
      /\ (pc = "idle" /\ timer[i].callback # NULL) =>
            /\ calls[i] < reg[i].n
            /\ timer[i].numRuns = calls[i]
      /\ (Running /\ atScan[i] = "due") => InvokedOnce(i)
      /\ calls[i] = reg[i].n =>
            \/ /\ pc = "callback" /\ idx = i
               /\ timer[i].toBeCalled = TIMER_DEFCALL_RUNANDDEL
            \/ /\ timer[i].callback = NULL
               /\ \A d \in Delays :
                    ~changeInterval(timer, numTimers, now, i, d).ret
      /\ (last.op = "return" /\ last.id = i /\ calls[i] = reg[i].n) =>
            /\ timer[i].callback = NULL
            /\ numTimers = last.n0 - 1
            /\ getNumTimers(numTimers) = getNumTimers(last.n0) - 1

\* the second and last invocation of a timer registered for two runs has
\* just returned and freed its slot
C3_Witness ==
  \E i \in Slots :
    /\ reg[i].n = 2 /\ calls[i] = 2
    /\ last.op = "return" /\ last.id = i
    /\ timer[i].callback = NULL
    /\ numTimers = last.n0 - 1
    /\ ~changeInterval(timer, numTimers, now, i, 1).ret

\* ------------------------------------------------------------------- C4

\* C4: in a tick at whose start an enabled TIMER_RUN_FOREVER timer has
\* now - prev_millis >= delay the callback is invoked exactly once, and a
\* timer with now - prev_millis < delay is not invoked in that tick
C4_ForeverEveryDueTick ==
  \A i \in Slots :
    /\ (Running /\ atScan[i] = "dueForever") => InvokedOnce(i)
    /\ atScan[i] = "early" => Count(i, called) = 0

\* a tick has finished that found one forever timer due and invoked it once
\* and found another timer early and did not invoke it
C4_Witness ==
  /\ pc = "idle" /\ last.op = "return"
  /\ \E i, j \in Slots :
       /\ atScan[i] = "dueForever" /\ reg[i].n = TIMER_RUN_FOREVER
       /\ reg[i].d > 0
       /\ Count(i, called) = 1
       /\ atScan[j] = "early" /\ Count(j, called) = 0

\* ------------------------------------------------------------------- C5

\* C5: the scan of a tick that finishes advances prev_millis of every in-use
\* slot with now - prev_millis >= delay by delay * floor(elapsed / delay), so
\* that afterwards 0 <= now - prev_millis < delay, and leaves prev_millis of
\* a slot with elapsed < delay unchanged
C5_ScanAdvance ==
  [][(last'.op = "run" /\ pc' # "fault") =>
       \A i \in Slots :
         timer[i].callback # NULL =>
           LET e == (now - timer[i].prev_millis) % ULONG_MOD
               d == timer[i].delay
               e1 == (now - timer'[i].prev_millis) % ULONG_MOD
           IN  IF e >= d
               THEN /\ 0 <= e1 /\ e1 < d
                    /\ timer'[i].prev_millis =
                         (timer[i].prev_millis + d * (e \div d)) % ULONG_MOD
               ELSE timer'[i].prev_millis = timer[i].prev_millis]_vars

\* the same for the slots whose delay is not zero
C5_ScanAdvancePositive ==
  [][(last'.op = "run" /\ pc' # "fault") =>
       \A i \in Slots :
         (timer[i].callback # NULL /\ timer[i].delay > 0) =>
           LET e == (now - timer[i].prev_millis) % ULONG_MOD
               d == timer[i].delay
               e1 == (now - timer'[i].prev_millis) % ULONG_MOD
           IN  IF e >= d
               THEN /\ 0 <= e1 /\ e1 < d
                    /\ timer'[i].prev_millis =
                         (timer[i].prev_millis + d * (e \div d)) % ULONG_MOD
               ELSE timer'[i].prev_millis = timer[i].prev_millis]_vars

\* ------------------------------------------------------------------- C6

\* C6: a tick that finishes leaves a timer that was disabled when it began
\* uninvoked, with numRuns unchanged and prev_millis advanced by whole
\* periods to within one period of now; an invocation only begins for a
\* slot that was enabled with now - prev_millis >= delay when the tick
\* began, and at most once in the tick, so a timer enabled after a long
\* disabled stretch gets no burst of catch-up invocations
C6_DisabledSkipped ==
  /\ [](\A i \in Slots : atScan[i] = "off" => Count(i, called) = 0)
  /\ [][(last'.op = "run" /\ pc' # "fault") =>
          \A i \in Slots :
            (timer[i].callback # NULL /\ ~timer[i].enabled) =>
              LET e == (now - timer[i].prev_millis) % ULONG_MOD
                  d == timer[i].delay
                  k == IF d = 0 \/ e < d THEN 0 ELSE e \div d
              IN  /\ timer'[i].numRuns = timer[i].numRuns
                  /\ timer'[i].toBeCalled = TIMER_DEFCALL_DONTRUN
                  /\ timer'[i].prev_millis =
                       (timer[i].prev_millis + d * k) % ULONG_MOD
                  /\ d > 0 => (now - timer'[i].prev_millis) % ULONG_MOD < d]_vars
  /\ [][(last'.op \in {"run", "return"} /\ pc' = "callback") =>
          /\ atScan'[idx'] \in {"due", "dueForever"}
          /\ Count(idx', called') = 1]_vars

\* a timer registered for two runs has never run although its prev_millis
\* has moved, so a tick found it due while it was disabled; it is enabled
\* now and the tick that just finished found it early
C6_Witness ==
  /\ pc = "idle" /\ last.op = "run"
  /\ \E i \in Slots :
       /\ reg[i].n = 2 /\ reg[i].d > 0
       /\ timer[i].callback # NULL /\ timer[i].enabled
       /\ timer[i].numRuns = 0
       /\ timer[i].prev_millis # reg[i].t0
       /\ atScan[i] = "early"

\* ------------------------------------------------------------------- C7

\* C7: a timer registered at time t with period P > 0, whether left alone or
\* disabled and enabled again before t + P, is invoked exactly once by the
\* tick that begins at exactly t + P
C7_RoundTrip ==
  \A i \in Slots :
    (Running /\ rt[i] \in {"deadline", "deadlineRT"} /\ reg[i].d > 0) =>
      InvokedOnce(i)

\* the tick at the deadline of a timer that was disabled and enabled again
\* has finished and has invoked it once
C7_Witness ==
  /\ pc = "idle"
  /\ \E i \in Slots :
       /\ rt[i] = "deadlineRT" /\ reg[i].d > 0
       /\ Count(i, called) = 1

\* ------------------------------------------------------------------- C8

\* the step recorded in l is a call that failed or was given an id out of
\* range
Failing(l) ==
  \/ l.op \in RegisterOps /\ l.ret = -1
  \/ l.op = "changeInterval" /\ l.ret = FALSE
  \/ /\ l.op \in {"restartTimer", "enable", "disable", "toggle", "deleteTimer"}
     /\ l.id >= MAX_NUMBER_TIMERS

\* C8: every failing or out-of-range call leaves all slots and numTimers
\* unchanged, in any state including that of a never-initialised scheduler,
\* and isEnabled with an id out of range returns false
C8_FailureLeavesState ==
  /\ [][Failing(last') => (timer' = timer /\ numTimers' = numTimers)]_vars
  /\ [](\A id \in Ids : id >= MAX_NUMBER_TIMERS => ~isEnabled(timer, id))

\* the same once the scheduler is initialised
C8_FailureLeavesInitialisedState ==
  /\ [][(Failing(last') /\ numTimers >= 0) =>
          (timer' = timer /\ numTimers' = numTimers)]_vars
  /\ [](\A id \in Ids : id >= MAX_NUMBER_TIMERS => ~isEnabled(timer, id))

\* ------------------------------------------------------------------- C9

\* C9: deleteTimer(id) with id out of range or on a free slot changes no slot
\* field and not numTimers; on a slot in use it leaves the slot zeroed
\* (every field zero, prev_millis reset to the current time), numTimers one
\* less and every other slot as it was
C9_RemoveFrame ==
  [][last'.op = "deleteTimer" =>
       IF last'.id >= MAX_NUMBER_TIMERS
       THEN timer' = timer /\ numTimers' = numTimers
       ELSE IF timer[last'.id].callback = NULL
            THEN timer' = timer /\ numTimers' = numTimers
            ELSE /\ timer'[last'.id] = [ZeroSlot EXCEPT !.prev_millis = now]
                 /\ numTimers' = numTimers - 1
                 /\ \A j \in Slots :
                      j # last'.id => timer'[j] = timer[j]]_vars

\* deleteTimer has just freed one of two slots in use
C9_Witness ==
  /\ last.op = "deleteTimer" /\ last.id \in Slots
  /\ last.n0 = 2 /\ numTimers = 1
  /\ timer[last.id].callback = NULL
  /\ \E j \in Slots : timer[j].callback # NULL

\* ------------------------------------------------------------------ C10

\* the step recorded in l is a registration that succeeded
Registered(l) == l.op \in RegisterOps /\ l.ret >= 0

\* the slot a successful registration with the arguments a at time ms leaves
SlotHolds(s, a, ms) ==
  /\ s.delay = a[1] /\ s.callback = a[2] /\ s.param = a[3]
  /\ s.hasParam = a[4] /\ s.maxNumRuns = a[5]
  /\ s.enabled /\ s.prev_millis = ms /\ s.numRuns = 0

\* C10 as stated: a successful registration returns the lowest free index,
\* the slot holds the given values with enabled = true, prev_millis = now
\* and numRuns = 0, numTimers is one more and every other slot is unchanged
C10_RegisterFrame ==
  [][Registered(last') =>
       /\ timer[last'.ret].callback = NULL
       /\ \A j \in Slots : j < last'.ret => timer[j].callback # NULL
       /\ SlotHolds(timer'[last'.ret], last'.arg, now)
       /\ numTimers' = numTimers + 1
       /\ \A j \in Slots : j # last'.ret => timer'[j] = timer[j]]_vars

\* C10 amended: that holds of a scheduler that is initialised (numTimers >=
\* 0); on a never-initialised one (numTimers = -1) the registration first
\* zeroes every slot, stamps prev_millis = now and sets numTimers to 0, so
\* it returns 0, numTimers becomes 1 and every other slot is left zeroed
\* with prev_millis = now
C10_RegisterFrameAfterLazyInit ==
  [][Registered(last') =>
       LET t0 == IF numTimers < 0
                 THEN [i \in Slots |-> [ZeroSlot EXCEPT !.prev_millis = now]]
                 ELSE timer
           n0 == IF numTimers < 0 THEN 0 ELSE numTimers
       IN  /\ t0[last'.ret].callback = NULL
           /\ \A j \in Slots : j < last'.ret => t0[j].callback # NULL
           /\ SlotHolds(timer'[last'.ret], last'.arg, now)
           /\ numTimers' = n0 + 1
           /\ \A j \in Slots : j # last'.ret => timer'[j] = t0[j]]_vars

\* a registration has just taken slot 0 again while slot 1 is in use: slot 0
\* was registered, used and freed before
C10_Witness ==
  /\ Registered(last) /\ last.ret = 0
  /\ last.n0 = 1 /\ numTimers = 2
  /\ timer[1].callback # NULL
  /\ SlotHolds(timer[0], last.arg, now)

\* ------------------------------------------------------------------ C11

\* C11: changeInterval(id, d) with id out of range or on a free slot returns
\* false and changes no slot and not numTimers; otherwise it returns true,
\* stores d in delay and the current time in prev_millis of the slot, and
\* leaves every other field of the slot, numTimers and every other slot as
\* they were
C11_ChangeIntervalFrame ==
  [][last'.op = "changeInterval" =>
       IF last'.id >= MAX_NUMBER_TIMERS
       THEN last'.ret = FALSE /\ timer' = timer /\ numTimers' = numTimers
       ELSE IF timer[last'.id].callback = NULL
            THEN last'.ret = FALSE /\ timer' = timer /\ numTimers' = numTimers
            ELSE /\ last'.ret = TRUE
                 /\ timer'[last'.id] =
                      [timer[last'.id] EXCEPT !.delay = last'.arg[1],
                                              !.prev_millis = now]
                 /\ numTimers' = numTimers
                 /\ \A j \in Slots :
                      j # last'.id => timer'[j] = timer[j]]_vars

\* changeInterval has just succeeded on a registered timer that has run
\* once and whose prev_millis was not the current time
C11_Witness ==
  /\ last.op = "changeInterval" /\ last.ret = TRUE
  /\ last.n0 = 1 /\ numTimers = 1
  /\ timer[last.id].delay = last.arg[1]
  /\ timer[last.id].delay # reg[last.id].d
  /\ timer[last.id].prev_millis = now
  /\ reg[last.id].t0 # now
  /\ timer[last.id].numRuns = 1

\* ------------------------------------------------------------------ C12

C13_WrapTolerant ==
  [][(last'.op = "run" /\ pc' # "fault") =>
       \A i \in Slots :
         (/\ timer[i].callback # NULL
          /\ timer[i].delay > 0
          /\ now < timer[i].prev_millis) =>
           LET e == now + ULONG_MOD - timer[i].prev_millis
               d == timer[i].delay
           IN  /\ (e >= d) <=> (timer'[i].prev_millis # timer[i].prev_millis)
               /\ (timer[i].enabled /\ timer[i].maxNumRuns = TIMER_RUN_FOREVER) =>
                    ((e >= d) <=> (timer'[i].toBeCalled = TIMER_DEFCALL_RUNONLY))
               /\ (now - timer'[i].prev_millis) % ULONG_MOD < d]_vars

\* a timer registered before the clock wrapped has been invoked by the tick
\* that began one period later, after the wrap
C13_Witness ==
  /\ pc = "idle"
  /\ \E i \in Slots :
       /\ rt[i] = "deadline" /\ reg[i].d > 0
       /\ reg[i].t0 > now
       /\ Count(i, called) = 1

\* ------------------------------------------------------------------ C14

\* C14: when the first callback of a tick is invoked the scan has marked
\* every slot, the higher ones included; the callbacks of one tick are
\* invoked in strictly ascending slot order, so when one is invoked every
\* marked slot below it has been invoked; and a slot marked RUNANDDEL is
\* free as soon as its callback has returned, before any higher slot is
\* invoked
C14_ScanThenAscending ==
  /\ [](\A k, l \in 1 .. Len(called) : k < l => called[k] < called[l])
  /\ [][(last'.op = "run" /\ pc' = "callback") =>
          \A j \in Slots :
            (timer'[j].toBeCalled # TIMER_DEFCALL_DONTRUN) <=>
              /\ atScan'[j] \in {"due", "dueForever"}
              /\ \/ timer[j].maxNumRuns = TIMER_RUN_FOREVER
                 \/ timer[j].numRuns < timer[j].maxNumRuns]_vars
  /\ [][(last'.op \in {"run", "return"} /\ pc' = "callback") =>
          \A j \in Slots :
            (j < idx' /\ timer'[j].toBeCalled # TIMER_DEFCALL_DONTRUN) =>
              Count(j, called') = 1]_vars
  /\ [][(last'.op = "return" /\ timer[idx].toBeCalled = TIMER_DEFCALL_RUNANDDEL) =>
          /\ timer'[idx].callback = NULL
          /\ pc' = "callback" => idx' > idx]_vars

\* the callback of the second of two registered timers has just been
\* invoked, after the first one returned and its slot was freed
C14_Witness ==
  /\ pc = "callback" /\ last.op = "return"
  /\ last.n0 = 2 /\ numTimers = 1
  /\ Len(called) = 2 /\ called[1] < called[2]
  /\ timer[called[1]].callback = NULL
  /\ timer[called[2]].callback # NULL

\* ------------------------------------------------------------------ C15

\* C15: run() never invokes the callback of a registered timer whose
\* enabled flag is false when the callback is invoked, also when a callback
\* invoked earlier in the same tick disabled it
C15_NoDisabledInvocation ==
  [][(last'.op \in {"run", "return"} /\ pc' = "callback" /\ reg[idx'].n >= 0) =>
       timer'[idx'].enabled]_vars

\* the part that holds: a slot that is disabled when the tick begins is not
\* invoked in that tick
C15_DisabledAtScanSkipped ==
  \A i \in Slots : atScan[i] = "off" => Count(i, called) = 0

\* ------------------------------------------------------------------ C16

FlagOps ==
  {"enable", "disable", "toggle", "restartTimer", "changeInterval",
   "enableAll", "disableAll"}

\* C16: a slot goes from free to in use only in a registration that returns
\* its index, and from in use to free only in deleteTimer of its id, in
\* init() (called directly, or by the first registration of a scheduler
\* that was never initialised), or when run() deletes it after the
\* invocation that made numRuns reach its finite maxNumRuns; run() never
\* frees a slot whose maxNumRuns is TIMER_RUN_FOREVER, and enable, disable,
\* toggle, restartTimer, changeInterval, enableAll and disableAll never
\* change whether a slot is in use
C16_Lifecycle ==
  [][\A i \in Slots :
       LET was == timer[i].callback # NULL
           is == timer'[i].callback # NULL
       IN  /\ (~was /\ is) => (Registered(last') /\ last'.ret = i)
           /\ (was /\ ~is) =>
                \/ last'.op = "deleteTimer" /\ last'.id = i
                \/ last'.op = "init"
                \/ last'.op \in RegisterOps /\ numTimers < 0
                \/ /\ last'.op = "return" /\ last'.id = i
                   /\ Count(i, called) = 1
                   /\ timer[i].maxNumRuns # TIMER_RUN_FOREVER
                   /\ timer[i].numRuns = timer[i].maxNumRuns
           /\ (/\ last'.op \in {"run", "return"}
               /\ was /\ timer[i].maxNumRuns = TIMER_RUN_FOREVER) => is
           /\ last'.op \in FlagOps => (was <=> is)]_vars

\* a tick has invoked a forever timer and a one-shot timer: the one-shot's
\* slot is free again and the forever timer is still in use
C16_Witness ==
  /\ pc = "idle" /\ last.op = "return"
  /\ last.n0 = 2 /\ numTimers = 1
  /\ \E i, j \in Slots :
       /\ timer[i].callback = NULL /\ Count(i, called) = 1
       /\ reg[i].n = TIMER_RUN_ONCE
       /\ timer[j].callback # NULL /\ Count(j, called) = 1
       /\ timer[j].maxNumRuns = TIMER_RUN_FOREVER

\* ------------------------------------------------------------------ C17

\* the marks the slots may hold
Marks ==
  {TIMER_DEFCALL_DONTRUN, TIMER_DEFCALL_RUNONLY, TIMER_DEFCALL_RUNANDDEL}

\* C17: toBeCalled carries nothing from one tick to the next: from any state
\* in which a tick can begin, and from any state that differs from it only
\* in the toBeCalled of the slots, the scan of a tick at the same time
\* leaves every slot the same, mark included, so that the dispatch loop,
\* which reads nothing else, invokes the same callbacks in the same order
\* and ends in the same state
C17_MarksDoNotCarry ==
  pc = "idle" =>
    \A i \in Slots :
      \A m \in Marks :
        \A q \in ULong :
          ScanSlot([timer[i] EXCEPT !.toBeCalled = m], now, q) =
            ScanSlot(timer[i], now, q)

\* a timer that an earlier tick invoked and left marked has been scanned
\* again, found early, unmarked and not invoked
C17_Witness ==
  /\ pc = "idle" /\ last.op = "run"
  /\ \E i \in Slots :
       /\ timer[i].callback # NULL /\ reg[i].n = 2
       /\ timer[i].numRuns = 1
       /\ atScan[i] = "early"
       /\ timer[i].toBeCalled = TIMER_DEFCALL_DONTRUN
       /\ Count(i, called) = 0

\* ------------------------------------------------------------------ C18

\* C18: every callback run() invokes belongs to a slot that is in use when
\* it is invoked (its callback is not NULL) and that holds the timer the
\* scan of this tick found enabled and due: not a slot that a callback of
\* the same tick removed or wiped with init(), and not a timer registered
\* since the tick began
C18_NoAbsentDispatch ==
  [][(last'.op \in {"run", "return"} /\ pc' = "callback") =>
       /\ timer'[idx'].callback # NULL
       /\ atScan'[idx'] \in {"due", "dueForever"}]_vars

\* a tick has finished that found both slots due and invoked only the first:
\* its callback removed the timer in the second slot
C18_Witness ==
  /\ pc = "idle" /\ last.op = "return"
  /\ called = <<0>>
  /\ atScan[1] = "dueForever"
  /\ timer[1].callback = NULL
  /\ numTimers = 1

\* ------------------------------------------------------------------ C19

\* C19: the scan of run() never divides by zero: whenever run() begins, no
\* slot in use whose period has elapsed (the slots for which the scan
\* computes elapsed / delay) has delay = 0
C19_NoDivisionByZero ==
  [][last'.op = "run" =>
       \A i \in Slots :
         (timer[i].callback # NULL /\
          (now - timer[i].prev_millis) % ULONG_MOD >= timer[i].delay)
         => timer[i].delay > 0]_vars

\* ------------------------------------------------------------------ C20

\* the run count of slot s is within its limit: 0 for a forever timer, less
\* than maxNumRuns for a finite one
WithinRuns(s) ==
  IF s.maxNumRuns = TIMER_RUN_FOREVER THEN s.numRuns = 0
  ELSE s.numRuns < s.maxNumRuns

\* numRuns of every slot that is in use before and after the step does not
\* decrease, grows by at most one, and changes only in the scan of run()
RunsStep ==
  \A i \in Slots :
    (timer[i].callback # NULL /\ timer'[i].callback # NULL) =>
      /\ timer'[i].numRuns >= timer[i].numRuns
      /\ timer'[i].numRuns <= timer[i].numRuns + 1
      /\ last'.op # "run" => timer'[i].numRuns = timer[i].numRuns

====
